---- MODULE Spec2Model ----
(***************************************************************************)
(* Model of the nacin-os terminal dashboard.                               *)
(*                                                                         *)
(* Two wirings of the program exist in the repository:                     *)
(*   "wired"  : main calls ui.NewUI().Run(); NewUI installs the input      *)
(*              capture and starts the sampling goroutine                  *)
(*              (src/unnamed/part_002, src/pkg/ui/layout.go:48-152).       *)
(*   "staged" : main calls NewUI, SetupLayout, SetupKeyHandling,           *)
(*              UpdateSystemInfo and Run in turn                           *)
(*              (src/main.go, src/pkg/ui/layout.go:177-295).               *)
(*                                                                         *)
(* Goroutines: main (which becomes the tview event loop inside Run), the   *)
(* sampling goroutine (updateSystemInfoPeriodically), and tview's screen   *)
(* poller, which turns key presses into queued events.                     *)
(*                                                                         *)
(* tview semantics used by the code: QueueUpdateDraw(f) puts f on the      *)
(* application's update queue and returns after the event loop has run f   *)
(* and redrawn; Stop() finalizes the screen once, after which the poller   *)
(* queues a nil event that ends the event loop; draw() is a no-op without  *)
(* a screen.                                                               *)
(***************************************************************************)
EXTENDS Integers, Sequences, FiniteSets, TLC

VARIABLES
    variant,        \* which wiring of main/NewUI is running
    mainPc,         \* position of the main goroutine
    inputCapture,   \* TRUE once SetInputCapture has been called
    startup,        \* order of the startup events
    screen,         \* "none" | "active" | "stopped"  (tview a.screen)
    pollerPc,       \* "none" | "polling" | "done"
    events,         \* tview a.events: queued key events, "nil" ends the loop
    updates,        \* tview a.updates: queued update callbacks (cycle ids)
    loopPc,         \* position of the event loop inside Run
    samplerPc,      \* "none" | "queue" | "wait" | "sleep"
    doneSignal,     \* the update's done channel has been signalled
    sleptMs,        \* time slept so far in the current time.Sleep
    elapsedMs,      \* time spent so far in the current GetSystemInfo call
    hung,           \* an external probe of the current collection never returns
    queued,         \* QueueUpdateDraw calls made by the sampling loop
    cyclesDone,     \* QueueUpdateDraw calls that have returned
    collectCalls,   \* GetSystemInfo calls started
    collectDone,    \* GetSystemInfo calls returned
    collecting,     \* GetSystemInfo calls in progress
    sleepsSince,    \* completed sleeps since the last GetSystemInfo call began
    sleptBefore,    \* completed sleeps that preceded the last GetSystemInfo call
    info,           \* the callback's local snapshot (its collection cycle)
    header,         \* cycle whose values the header panel text holds (0: empty)
    stats,          \* cycle whose values the stats panel text holds
    middle,         \* cycle whose values the IP panel text holds
    frame,          \* the last frame drawn on the screen
    keysPressed,    \* key presses so far
    handled,        \* the last key event the input capture handled
    stopCalls,      \* calls of Application.Stop
    finiCalls,      \* screen teardowns (screen.Fini)
    exitStatus,     \* "running" | "ok" | "error" | "panic"
    goos,           \* runtime.GOOS of the build
    gPc,            \* position inside GetSystemInfo
    gCalls,         \* invocations of each external probe in this call
    gRes,           \* what the probes returned in this call
    gInfo,          \* the SystemInfo being filled in
    gRuns,          \* GetSystemInfo calls followed so far
    gText           \* what the update callback of this call has done: the
                    \* panel texts it has set, and the texts its redraw showed

vars == <<variant, mainPc, inputCapture, startup, screen, pollerPc, events,
          updates, loopPc, samplerPc, doneSignal, sleptMs, elapsedMs, hung,
          queued, cyclesDone, collectCalls, collectDone, collecting,
          sleepsSince, sleptBefore, info, header, stats, middle, frame,
          keysPressed, handled, stopCalls, finiCalls, exitStatus,
          goos, gPc, gCalls, gRes, gInfo, gRuns, gText>>

\* ------------------------------------------------------------------ bounds

\* Sampling cycles the sampling loop may start.
MaxCycles == 3
\* Key presses the operator makes.
MaxKeys == 2
\* A collection is followed for up to MaxSlow sleep intervals.
MaxSlow == 3
\* Calls of GetSystemInfo followed statement by statement.
MaxRuns == 2

\* the largest uptime, in seconds, that host.Info reports to the uptime
\* formatting (a little over one day, so that hours pass 23 and days reach 1)
MaxUptime == 90100

\* --------------------------------------------------------------- constants

Variants == {"wired", "staged"}

KeyEscape == "KeyEscape"
KeyCtrlC == "KeyCtrlC"
Keys == {KeyEscape, KeyCtrlC, "KeyEnter", "KeyRune"}
NilEvent == "nil"

\* time.Sleep(900 * time.Millisecond) / time.Sleep(2 * time.Second)
SleepMs(v) == IF v = "wired" THEN 900 ELSE 2000

Min(a, b) == IF a < b THEN a ELSE b

\* ------------------------------------------------------------ GetSystemInfo
\* GetSystemInfo (src/pkg/system/info.go) followed statement by statement;
\* every external probe is an input chosen from a small set of results.

GOOS == {"linux", "windows", "darwin"}

Probes == {"host.Info", "cpu.Info", "cpu.Percent", "mem.VirtualMemory",
           "nvidia-smi", "sensors", "disk.Partitions", "net.Interfaces",
           "psnet.IOCounters"}

Called(calls, p) == [calls EXCEPT ![p] = @ + 1]

\* host.Info(): an error (and no InfoStat), or an InfoStat with its uptime in
\* seconds.
HostResults == {[err |-> TRUE, uptime |-> 0],
                [err |-> FALSE, uptime |-> 59],
                [err |-> FALSE, uptime |-> 90061]}

\* cpu.Info(): an error, or the list of CPUs (its length and first entry).
CpuInfoResults == {[err |-> TRUE, n |-> 0, model |-> "", mhz |-> 0],
                   [err |-> FALSE, n |-> 0, model |-> "", mhz |-> 0],
                   [err |-> FALSE, n |-> 4, model |-> "Xeon", mhz |-> 2400]}

\* cpu.Percent(100ms, false): an error, or a list (its length and first entry,
\* truncated to an int by the code).
CpuPercentResults == {[err |-> TRUE, n |-> 0, first |-> 0],
                      [err |-> FALSE, n |-> 0, first |-> 0],
                      [err |-> FALSE, n |-> 1, first |-> 7],
                      [err |-> FALSE, n |-> 1, first |-> 42]}

\* mem.VirtualMemory(): an error, or the total (in tenths of a GiB) and the
\* used percentage.
MemResults == {[err |-> TRUE, totalTenthGiB |-> 0, usedPercent |-> 0],
               [err |-> FALSE, totalTenthGiB |-> 157, usedPercent |-> 77]}

\* cmd.Output() of nvidia-smi: an error, or the output split into lines, each
\* line split at ", ".
NvidiaResults == {[err |-> TRUE, lines |-> <<>>],
                  [err |-> FALSE, lines |-> << <<"">> >>],
                  [err |-> FALSE, lines |-> << <<"No devices were found">>, <<"">> >>],
                  [err |-> FALSE, lines |-> << <<"RTX 3080", "65">>, <<"">> >>],
                  [err |-> FALSE, lines |-> << <<"RTX 3080", "[N/A]">>, <<"">> >>],
                  [err |-> FALSE, lines |-> << <<"", "65">>, <<"">> >>]}

\* cmd.Output() of sensors -j: an error, or whether the output contains "temp".
SensorsResults == {[err |-> TRUE, hasTemp |-> FALSE],
                   [err |-> FALSE, hasTemp |-> FALSE],
                   [err |-> FALSE, hasTemp |-> TRUE]}

\* How a run of nvidia-smi ended: the command failed (or is missing), or its
\* output has no line with a name and a temperature column, or it has one.
NvidiaOutcome(r) ==
    IF r.err THEN "failed"
    ELSE IF \A i \in DOMAIN r.lines : Len(r.lines[i]) < 2 THEN "no usable line"
    ELSE "usable line"

\* time.Now().Second() % 10 at the moment a fallback temperature is printed.
SecondDigits == {0, 7}

\* disk.Partitions(false): an error, or the partitions, each with the result
\* of disk.Usage on its mount point (sizes in whole GiB).
DiskResults ==
    {[err |-> TRUE, parts |-> <<>>],
     [err |-> FALSE, parts |-> <<>>],
     [err |-> FALSE, parts |->
        << [mount |-> "/", usageErr |-> FALSE, totalGiB |-> 100, usedGiB |-> 40, pct |-> 40],
           [mount |-> "/boot", usageErr |-> FALSE, totalGiB |-> 0, usedGiB |-> 0, pct |-> 10],
           [mount |-> "/mnt", usageErr |-> TRUE, totalGiB |-> 0, usedGiB |-> 0, pct |-> 0] >>]}

\* Addresses as iface.Addrs() returns them: the Go type of the entry, the
\* printed form of its IP ("" when the entry has none), whether To4() is
\* non-nil and whether IsLoopback() holds.
AddrV4(ip) == [type |-> "IPNet", ip |-> ip, v4 |-> TRUE, loopback |-> FALSE]
AddrV6(ip) == [type |-> "IPNet", ip |-> ip, v4 |-> FALSE, loopback |-> FALSE]
AddrLoop(ip) == [type |-> "IPNet", ip |-> ip, v4 |-> TRUE, loopback |-> TRUE]

Iface(name, loopback, up, addrsErr, addrs) ==
    [name |-> name, loopback |-> loopback, up |-> up, addrsErr |-> addrsErr,
     addrs |-> addrs]

IfLo == Iface("lo", TRUE, TRUE, FALSE, <<AddrLoop("127.0.0.1"), AddrV4("10.255.0.1")>>)
IfEth0 == Iface("eth0", FALSE, TRUE, FALSE, <<AddrV4("10.0.0.5"), AddrV6("fe80::1")>>)
IfEth1Down == Iface("eth1", FALSE, FALSE, FALSE, <<AddrV4("192.168.1.9")>>)
IfWlanErr == Iface("wlan0", FALSE, TRUE, TRUE, <<>>)
IfV6Only == Iface("tun0", FALSE, TRUE, FALSE, <<AddrV6("fd00::2"), AddrLoop("127.0.0.2")>>)
IfBr0 == Iface("br0", FALSE, TRUE, FALSE,
               <<AddrV6("fe80::2"), AddrV4("172.17.0.1"), AddrLoop("127.0.0.3"),
                 AddrV4("172.17.0.2")>>)

\* net.Interfaces(): an error, or the interfaces in enumeration order.
InterfacesResults ==
    {[err |-> TRUE, ifaces |-> <<>>],
     [err |-> FALSE, ifaces |-> <<>>],
     [err |-> FALSE, ifaces |-> <<IfLo, IfV6Only>>],
     [err |-> FALSE, ifaces |-> <<IfLo, IfWlanErr, IfEth0, IfEth1Down>>],
     [err |-> FALSE, ifaces |-> <<IfBr0, IfLo, IfEth0>>],
     [err |-> FALSE, ifaces |-> <<IfLo, IfEth0>>],
     [err |-> FALSE, ifaces |-> <<IfEth0, IfWlanErr, IfBr0>>]}

\* psnet.IOCounters(true): an error, or the names that have counters.
IOCountersResults == {[err |-> TRUE, names |-> {}],
                      [err |-> FALSE, names |-> {"lo", "eth0"}]}

NoCalls == [p \in Probes |-> 0]

\* info := SystemInfo{}
EmptyInfo ==
    [CPUInfo |-> "", GPUInfo |-> "", MemoryInfo |-> "", RAMUsage |-> "",
     CPUUsage |-> "", UptimeInfo |-> "", IPAddresses |-> <<>>, CPUTemp |-> "",
     GPUTemp |-> "", DiskInfo |-> <<>>, NetworkInfo |-> <<>>, Platform |-> "",
     OSInfo |-> ""]

\* The locals of GetSystemInfo that later statements read: err, and hostInfo
\* ("nil", or its uptime in seconds); and what the probes returned: the
\* interfaces net.Interfaces gave getIPAddresses, cpuPercent[0] and
\* memInfo.UsedPercent as ints (-1: none), and the outcome of nvidia-smi
\* ("not run", "failed", "no usable line" or "usable line").
NoResults == [err |-> FALSE, hostNil |-> TRUE, uptime |-> 0,
              ipIfaces |-> [err |-> FALSE, ifaces |-> <<>>],
              cpuPct |-> -1, memPct |-> -1,
              nvidia |-> "not run"]

\* %02d
Pad2(n) == IF n < 10 THEN "0" \o ToString(n) ELSE ToString(n)

\* %.2f of mhz/1000.0, for a whole number of MHz that is a multiple of 10
GHz(mhz) == ToString(mhz \div 1000) \o "." \o Pad2((mhz % 1000) \div 10)

\* %.1f of a value given in tenths
Tenths(t) == ToString(t \div 10) \o "." \o ToString(t % 10)

\* Faulty variant of formatDuration: the minutes are not reduced modulo 60.
formatDurationMinutesUnreduced(d) ==
    LET hours == d \div 3600
        mins == d \div 60
        secs == d % 60
    IN ToString(hours) \o " hours " \o Pad2(mins) \o " minutes " \o Pad2(secs)
       \o " seconds"

\* formatDuration of src/ui/layout.go, which prints days when there are any:
\* d is a whole number of seconds
formatDurationDays(d) ==
    LET days == (d \div 3600) \div 24
        hours == (d \div 3600) % 24
        minutes == (d \div 60) % 60
        seconds == d % 60
    IN IF days > 0
       THEN ToString(days) \o " days, " \o ToString(hours) \o " hours, "
            \o ToString(minutes) \o " minutes, " \o ToString(seconds)
            \o " seconds"
       ELSE ToString(hours) \o " hours, " \o ToString(minutes) \o " minutes, "
            \o ToString(seconds) \o " seconds"

\* formatDuration: d is a whole number of seconds
formatDuration(d) ==
    LET hours == d \div 3600
        mins == (d \div 60) % 60
        secs == d % 60
    IN ToString(hours) \o " hours " \o Pad2(mins) \o " minutes " \o Pad2(secs)
       \o " seconds"

\* fmt.Sscanf(s, "%d", &temperature): the number s starts with, or no
\* assignment (temperature keeps its 0) when s does not start with one.
ScanTemp(s) == CASE s = "65" -> 65 [] s = "0" -> 0 [] OTHER -> 0

RECURSIVE ScanGPULines(_)
\* The loop of getGPUInfo over the output lines: skip empty lines, take the
\* first line with at least two parts.
ScanGPULines(lines) ==
    IF lines = <<>> THEN [info |-> "GPU information unavailable", temp |-> 0]
    ELSE LET parts == Head(lines)
         IN IF parts = <<"">> THEN ScanGPULines(Tail(lines))
            ELSE IF Len(parts) >= 2
                 THEN [info |-> parts[1], temp |-> ScanTemp(parts[2])]
                 ELSE ScanGPULines(Tail(lines))

\* Faulty variant of getGPUInfo: a failed command leaves the name empty
\* instead of the default text.
getGPUInfoEmptyOnError(os, r) ==
    IF os = "linux" \/ os = "windows"
    THEN IF ~r.err THEN ScanGPULines(r.lines)
         ELSE [info |-> "", temp |-> 0]
    ELSE IF os = "darwin" THEN [info |-> "Apple GPU", temp |-> 0]
         ELSE [info |-> "GPU information unavailable", temp |-> 0]

\* getGPUInfo: (gpuInfo, temperature)
getGPUInfo(os, r) ==
    IF os = "linux" \/ os = "windows"
    THEN IF ~r.err THEN ScanGPULines(r.lines)
         ELSE [info |-> "GPU information unavailable", temp |-> 0]
    ELSE IF os = "darwin" THEN [info |-> "Apple GPU", temp |-> 0]
         ELSE [info |-> "GPU information unavailable", temp |-> 0]

\* getCPUTemperature
getCPUTemperature(os, r) ==
    IF os = "linux" /\ ~r.err /\ r.hasTemp THEN 50 ELSE 0

RECURSIVE ScanPartitions(_)
ScanPartitions(parts) ==
    IF parts = <<>> THEN <<>>
    ELSE LET p == Head(parts)
         IN IF p.usageErr \/ p.totalGiB < 1
            THEN ScanPartitions(Tail(parts))
            ELSE <<p.mount \o ": " \o ToString(p.usedGiB) \o ".0 GB / "
                   \o ToString(p.totalGiB) \o ".0 GB (" \o ToString(p.pct)
                   \o "% used)">> \o ScanPartitions(Tail(parts))

\* getDiskInfo
getDiskInfo(r) ==
    IF r.err THEN <<"Disk information unavailable">>
    ELSE LET list == ScanPartitions(r.parts)
         IN IF list = <<>> THEN <<"No disk information available">> ELSE list

RECURSIVE ScanNics(_, _)
ScanNics(ifaces, names) ==
    IF ifaces = <<>> THEN <<>>
    ELSE LET nic == Head(ifaces)
         IN IF nic.loopback \/ ~nic.up \/ nic.name \notin names
            THEN ScanNics(Tail(ifaces), names)
            ELSE <<nic.name \o ": up 1.00 MB, down 2.00 MB">>
                 \o ScanNics(Tail(ifaces), names)

\* getNetworkInfo: io is read only when net.Interfaces succeeded
getNetworkInfo(r, io) ==
    IF r.err THEN <<"Network information unavailable">>
    ELSE IF io.err THEN <<"Network I/O information unavailable">>
    ELSE LET list == ScanNics(r.ifaces, io.names)
         IN IF list = <<>> THEN <<"No active network interfaces found">> ELSE list

RECURSIVE ScanAddrsAnyFamily(_, _)
\* Faulty variant of ScanAddrs: the To4() test is left out, so IPv6 addresses
\* are listed too.
ScanAddrsAnyFamily(addrs, name) ==
    IF addrs = <<>> THEN <<>>
    ELSE LET a == Head(addrs)
             isNil == a.type \notin {"IPNet", "IPAddr"} \/ a.ip = ""
         IN IF isNil \/ a.loopback THEN ScanAddrsAnyFamily(Tail(addrs), name)
            ELSE <<a.ip \o " (" \o name \o ")">>
                 \o ScanAddrsAnyFamily(Tail(addrs), name)

RECURSIVE ScanAddrs(_, _)
\* The inner loop of getIPAddresses over one interface's addresses.
ScanAddrs(addrs, name) ==
    IF addrs = <<>> THEN <<>>
    ELSE LET a == Head(addrs)
             isNil == a.type \notin {"IPNet", "IPAddr"} \/ a.ip = ""
         IN IF isNil \/ a.loopback THEN ScanAddrs(Tail(addrs), name)
            ELSE IF a.v4
                 THEN <<a.ip \o " (" \o name \o ")">> \o ScanAddrs(Tail(addrs), name)
                 ELSE ScanAddrs(Tail(addrs), name)

RECURSIVE ScanIfacesAbortOnError(_)
\* Faulty variant of ScanIfaces: a failing iface.Addrs() ends the scan
\* (break in place of continue).
ScanIfacesAbortOnError(ifaces) ==
    IF ifaces = <<>> THEN <<>>
    ELSE LET iface == Head(ifaces)
         IN IF iface.loopback THEN ScanIfacesAbortOnError(Tail(ifaces))
            ELSE IF iface.addrsErr THEN <<>>
            ELSE ScanAddrs(iface.addrs, iface.name)
                 \o ScanIfacesAbortOnError(Tail(ifaces))

RECURSIVE ScanIfaces(_)
\* The outer loop of getIPAddresses over the interfaces.
ScanIfaces(ifaces) ==
    IF ifaces = <<>> THEN <<>>
    ELSE LET iface == Head(ifaces)
         IN IF iface.loopback THEN ScanIfaces(Tail(ifaces))
            ELSE IF iface.addrsErr THEN ScanIfaces(Tail(ifaces))
            ELSE ScanAddrs(iface.addrs, iface.name) \o ScanIfaces(Tail(ifaces))

\* Faulty variant of getIPAddresses: an empty result is returned as it is.
getIPAddressesNoSentinel(r) ==
    IF r.err THEN <<"Error getting network interfaces">>
    ELSE ScanIfaces(r.ifaces)

\* getIPAddresses
getIPAddresses(r) ==
    IF r.err THEN <<"Error getting network interfaces">>
    ELSE LET addrs == ScanIfaces(r.ifaces)
         IN IF Len(addrs) = 0 THEN <<"No IPv4 addresses found">> ELSE addrs

\* strings.Join(elems, sep)
RECURSIVE Join(_, _)
Join(elems, sep) ==
    IF elems = <<>> THEN ""
    ELSE IF Len(elems) = 1 THEN elems[1]
    ELSE elems[1] \o sep \o Join(Tail(elems), sep)

RECURSIVE BoldLines(_)
\* for _, ip := range info.IPAddresses { ipText += "[::b]%s[::]\n" }
BoldLines(ips) ==
    IF ips = <<>> THEN ""
    ELSE "[::b]" \o Head(ips) \o "[::]\n" \o BoldLines(Tail(ips))

\* The text the update callback gives the header panel.
HeaderText(v, i) ==
    IF v = "wired"
    THEN "\n\n[::b]NACIN EXAM SERVER[::]\n\n[::b]Sar Infocom Virtual Platform[::]\n\n[::b]"
         \o i.CPUInfo \o "[::]\n[::b]" \o i.MemoryInfo \o "[::]\n[::b]"
         \o i.GPUInfo \o "[::]\n[::b]" \o i.UptimeInfo \o "[::]\n\n"
    ELSE "\n\nNACIN EXAM SERVER\n\nSar Infocom Virtual Platform\n\n"
         \o i.CPUInfo \o "\n" \o i.MemoryInfo \o "\n" \o i.GPUInfo \o "\n"
         \o i.UptimeInfo \o "\n\n"

\* Faulty variant of StatsText: the GPU temperature is left out.
StatsTextNoGPUTemp(v, i) ==
    IF v = "wired"
    THEN "\n[::b]System Usage:[::]\n[::b]" \o i.CPUUsage \o "[::]\n[::b]"
         \o i.RAMUsage \o "[::]\n[::b]" \o i.CPUTemp \o "[::]"
    ELSE "\n\n\n\n\n\n" \o i.CPUUsage \o "\n" \o i.RAMUsage \o "\n"
         \o i.CPUTemp \o "\n\n"

\* The text the update callback gives the stats panel.
StatsText(v, i) ==
    IF v = "wired"
    THEN "\n[::b]System Usage:[::]\n[::b]" \o i.CPUUsage \o "[::]\n[::b]"
         \o i.RAMUsage \o "[::]\n[::b]" \o i.CPUTemp \o "[::]\n[::b]"
         \o i.GPUTemp \o "[::]"
    ELSE "\n\n\n\n\n\n" \o i.CPUUsage \o "\n" \o i.RAMUsage \o "\n"
         \o i.CPUTemp \o "\n" \o i.GPUTemp \o "\n\n"

\* The text the update callback gives the IP panel.
MiddleText(v, i) ==
    IF v = "wired"
    THEN "\n[::b]IP addresses:[::]\n" \o BoldLines(i.IPAddresses)
    ELSE "\nDownload tools to manage this host from:\n"
         \o Join(i.IPAddresses, "\n") \o "\n"

\* The update callback has set no panel text and nothing has been redrawn
\* for it yet.
NoText == [header |-> "", stats |-> "", middle |-> "", drawn |-> <<>>]


\* --------------------------------------------------------------- the state

NoKey == [key |-> "none", returned |-> "none", stop |-> FALSE, stops |-> 0]

NoFrame == [drawn |-> FALSE, header |-> 0, stats |-> 0, middle |-> 0, latest |-> 0]

Init ==
    /\ variant \in Variants
    /\ mainPc = "NewUI"
    /\ inputCapture = FALSE
    /\ startup = <<>>
    /\ screen = "none"
    /\ pollerPc = "none"
    /\ events = <<>>
    /\ updates = <<>>
    /\ loopPc = "none"
    /\ samplerPc = "none"
    /\ doneSignal = FALSE
    /\ sleptMs = 0
    /\ elapsedMs = 0
    /\ hung = FALSE
    /\ queued = 0
    /\ cyclesDone = 0
    /\ collectCalls = 0
    /\ collectDone = 0
    /\ collecting = 0
    /\ sleepsSince = 0
    /\ sleptBefore = 0
    /\ info = 0
    /\ header = 0
    /\ stats = 0
    /\ middle = 0
    /\ frame = NoFrame
    /\ keysPressed = 0
    /\ handled = NoKey
    /\ stopCalls = 0
    /\ finiCalls = 0
    /\ exitStatus = "running"
    /\ goos = "linux"
    /\ gPc = "idle"
    /\ gCalls = NoCalls
    /\ gRes = NoResults
    /\ gInfo = EmptyInfo
    /\ gRuns = 0
    /\ gText = NoText

\* The process is alive: main has neither returned nor crashed.
Alive == exitStatus = "running"

mainVars == <<variant, mainPc, inputCapture, startup, exitStatus>>
loopVars == <<screen, events, loopPc, info, header, stats, middle, frame,
              handled, stopCalls, finiCalls, hung>>
samplerVars == <<samplerPc, sleptMs, queued, cyclesDone, sleepsSince>>
collectVars == <<elapsedMs, collectCalls, collectDone, collecting, sleptBefore>>
gVars == <<goos, gPc, gCalls, gRes, gInfo, gRuns, gText>>

\* ------------------------------------------------------- the main goroutine

\* Faulty variant of NewUIWired: the sampling goroutine is started before
\* SetInputCapture is called.
NewUISchedulerFirst ==
    /\ Alive /\ mainPc = "NewUI" /\ variant = "wired"
    /\ inputCapture' = TRUE
    /\ samplerPc' = "queue"
    /\ startup' = startup \o <<"Scheduler", "InputHandler">>
    /\ mainPc' = "Run"
    /\ UNCHANGED <<variant, exitStatus, pollerPc, updates, doneSignal,
                   keysPressed, sleptMs, queued, cyclesDone, sleepsSince>>
    /\ UNCHANGED loopVars /\ UNCHANGED collectVars /\ UNCHANGED gVars

\* NewUI of the "wired" revision: SetInputCapture, then
\* go ui.updateSystemInfoPeriodically(), then return.
NewUIWired ==
    /\ Alive /\ mainPc = "NewUI" /\ variant = "wired"
    /\ inputCapture' = TRUE
    /\ samplerPc' = "queue"
    /\ startup' = startup \o <<"InputHandler", "Scheduler">>
    /\ mainPc' = "Run"
    /\ UNCHANGED <<variant, exitStatus, pollerPc, updates, doneSignal,
                   keysPressed, sleptMs, queued, cyclesDone, sleepsSince>>
    /\ UNCHANGED loopVars /\ UNCHANGED collectVars /\ UNCHANGED gVars

\* NewUI of the "staged" revision only builds the widgets.
NewUIStaged ==
    /\ Alive /\ mainPc = "NewUI" /\ variant = "staged"
    /\ mainPc' = "SetupLayout"
    /\ UNCHANGED <<variant, inputCapture, startup, exitStatus, pollerPc,
                   updates, doneSignal, keysPressed>>
    /\ UNCHANGED loopVars /\ UNCHANGED samplerVars /\ UNCHANGED collectVars
    /\ UNCHANGED gVars

SetupLayout ==
    /\ Alive /\ mainPc = "SetupLayout"
    /\ mainPc' = "SetupKeyHandling"
    /\ UNCHANGED <<variant, inputCapture, startup, exitStatus, pollerPc,
                   updates, doneSignal, keysPressed>>
    /\ UNCHANGED loopVars /\ UNCHANGED samplerVars /\ UNCHANGED collectVars
    /\ UNCHANGED gVars

SetupKeyHandling ==
    /\ Alive /\ mainPc = "SetupKeyHandling"
    /\ inputCapture' = TRUE
    /\ startup' = Append(startup, "InputHandler")
    /\ mainPc' = "UpdateSystemInfo"
    /\ UNCHANGED <<variant, exitStatus, pollerPc, updates, doneSignal, keysPressed>>
    /\ UNCHANGED loopVars /\ UNCHANGED samplerVars /\ UNCHANGED collectVars
    /\ UNCHANGED gVars

\* UpdateSystemInfo starts the sampling goroutine and returns.
UpdateSystemInfo ==
    /\ Alive /\ mainPc = "UpdateSystemInfo"
    /\ samplerPc' = "queue"
    /\ startup' = Append(startup, "Scheduler")
    /\ mainPc' = "Run"
    /\ UNCHANGED <<variant, inputCapture, exitStatus, pollerPc, updates,
                   doneSignal, keysPressed, sleptMs, queued, cyclesDone, sleepsSince>>
    /\ UNCHANGED loopVars /\ UNCHANGED collectVars /\ UNCHANGED gVars

\* What draw() leaves on the screen: the panels' current text when there is
\* a screen, nothing new otherwise.
Draw(scr, fr) ==
    IF scr = "active"
    THEN [drawn |-> TRUE, header |-> header, stats |-> stats,
          middle |-> middle, latest |-> collectDone]
    ELSE fr

\* Run: create and initialise the screen (which may fail), draw once, start
\* the screen poller and enter the event loop.
RunStart ==
    /\ Alive /\ mainPc = "Run"
    /\ \E ok \in BOOLEAN :
        IF ok
        THEN /\ screen' = "active"
             /\ frame' = Draw("active", frame)
             /\ pollerPc' = "polling"
             /\ loopPc' = "select"
             /\ mainPc' = "EventLoop"
             /\ startup' = Append(startup, "Run")
        ELSE /\ mainPc' = "RunFailed"
             /\ startup' = Append(startup, "Run")
             /\ UNCHANGED <<screen, frame, pollerPc, loopPc>>
    /\ UNCHANGED <<variant, inputCapture, exitStatus, events, updates, info,
                   header, stats, middle, handled, stopCalls, finiCalls, hung,
                   doneSignal, keysPressed>>
    /\ UNCHANGED samplerVars /\ UNCHANGED collectVars /\ UNCHANGED gVars

\* Faulty variant of MainExit: main ignores the error Run returned.
MainExitIgnoreError ==
    /\ Alive /\ mainPc \in {"RunReturned", "RunFailed"}
    /\ exitStatus' = "ok"
    /\ mainPc' = "Exited"
    /\ UNCHANGED <<variant, inputCapture, startup, pollerPc, updates,
                   doneSignal, keysPressed>>
    /\ UNCHANGED loopVars /\ UNCHANGED samplerVars /\ UNCHANGED collectVars
    /\ UNCHANGED gVars

\* main after Run has returned: nil ends the process with code 0, an error
\* ends it through log.Fatalf / panic(err).
MainExit ==
    /\ Alive /\ mainPc \in {"RunReturned", "RunFailed"}
    /\ exitStatus' = IF mainPc = "RunReturned" THEN "ok" ELSE "error"
    /\ mainPc' = "Exited"
    /\ UNCHANGED <<variant, inputCapture, startup, pollerPc, updates,
                   doneSignal, keysPressed>>
    /\ UNCHANGED loopVars /\ UNCHANGED samplerVars /\ UNCHANGED collectVars
    /\ UNCHANGED gVars

\* The exit code of the process: 0 when main returns; 1 from log.Fatalf
\* (os.Exit(1) after printing to standard error); 2 from panic(err) and from
\* any other unrecovered panic (the Go runtime prints it to standard error).
ExitCode ==
    CASE exitStatus = "ok" -> 0
      [] exitStatus = "error" -> (IF variant = "wired" THEN 1 ELSE 2)
      [] exitStatus = "panic" -> 2
      [] OTHER -> -1

\* ----------------------------------------------------- tview's screen poller

\* The operator presses a key: screen.PollEvent returns it and the poller
\* queues it for the event loop.
KeyPress ==
    /\ Alive /\ pollerPc = "polling" /\ screen = "active"
    /\ keysPressed < MaxKeys
    /\ \E k \in Keys : events' = Append(events, k)
    /\ keysPressed' = keysPressed + 1
    /\ UNCHANGED <<screen, loopPc, info, header, stats, middle, frame, handled,
                   stopCalls, finiCalls, hung, pollerPc, updates, doneSignal>>
    /\ UNCHANGED mainVars /\ UNCHANGED samplerVars /\ UNCHANGED collectVars
    /\ UNCHANGED gVars

\* After Stop has finalized the screen PollEvent returns nil, there is no
\* replacement screen, and the poller queues the nil event and ends.
PollerQuit ==
    /\ Alive /\ pollerPc = "polling" /\ screen = "stopped"
    /\ events' = Append(events, NilEvent)
    /\ pollerPc' = "done"
    /\ UNCHANGED <<screen, loopPc, info, header, stats, middle, frame, handled,
                   stopCalls, finiCalls, hung, updates, doneSignal, keysPressed>>
    /\ UNCHANGED mainVars /\ UNCHANGED samplerVars /\ UNCHANGED collectVars
    /\ UNCHANGED gVars

\* ------------------------------------------------------------ the event loop

\* Faulty variant of InputCapture: the capture tests for Escape only.
InputCaptureEscapeOnly(key) ==
    [stop |-> (key = KeyEscape), event |-> key]

\* The input capture installed by NewUI / SetupKeyHandling: Stop on Escape or
\* Ctrl-C, and return the event itself in every case.
InputCapture(key) ==
    [stop |-> (key = KeyEscape \/ key = KeyCtrlC), event |-> key]

\* Application.Stop: finalizes the screen if there is one, else returns.
StopScreen(scr) == IF scr = "active" THEN "stopped" ELSE scr

\* The event loop receives a key event: the input capture runs first; an event
\* it returns unchanged is then handled by tview, which stops the application
\* itself on Ctrl-C and otherwise passes the key to the root and redraws.
HandleKey ==
    /\ Alive /\ mainPc = "EventLoop" /\ loopPc = "select"
    /\ events # <<>> /\ Head(events) \in Keys
    /\ LET key == Head(events)
           cap == IF inputCapture THEN InputCapture(key)
                  ELSE [stop |-> FALSE, event |-> key]
           scr1 == IF cap.stop THEN StopScreen(screen) ELSE screen
           ctrlc == cap.event = key /\ key = KeyCtrlC
           scr2 == IF ctrlc THEN StopScreen(scr1) ELSE scr1
           nStops == (IF cap.stop THEN 1 ELSE 0) + (IF ctrlc THEN 1 ELSE 0)
       IN /\ events' = Tail(events)
          /\ screen' = scr2
          /\ stopCalls' = stopCalls + nStops
          /\ finiCalls' = finiCalls + (IF screen = "active" /\ scr2 = "stopped" THEN 1 ELSE 0)
          /\ frame' = IF ctrlc THEN frame ELSE Draw(scr2, frame)
          /\ handled' = [key |-> key, returned |-> cap.event, stop |-> cap.stop,
                        stops |-> nStops]
    /\ UNCHANGED <<loopPc, info, header, stats, middle, hung, pollerPc, updates,
                   doneSignal, keysPressed>>
    /\ UNCHANGED mainVars /\ UNCHANGED samplerVars /\ UNCHANGED collectVars
    /\ UNCHANGED gVars

\* The nil event ends the event loop; Run returns nil.
HandleNil ==
    /\ Alive /\ mainPc = "EventLoop" /\ loopPc = "select"
    /\ events # <<>> /\ Head(events) = NilEvent
    /\ events' = Tail(events)
    /\ loopPc' = "exited"
    /\ mainPc' = "RunReturned"
    /\ UNCHANGED <<variant, inputCapture, startup, exitStatus, screen, info,
                   header, stats, middle, frame, handled, stopCalls, finiCalls,
                   hung, pollerPc, updates, doneSignal, keysPressed>>
    /\ UNCHANGED samplerVars /\ UNCHANGED collectVars /\ UNCHANGED gVars

\* Faulty variant of BeginUpdate: a queued update is also run after the event
\* loop has ended and Run has returned.
BeginUpdateAfterRun ==
    /\ Alive /\ mainPc \in {"EventLoop", "RunReturned"}
    /\ loopPc \in {"select", "exited"}
    /\ updates # <<>>
    /\ updates' = Tail(updates)
    /\ loopPc' = "collect"
    /\ collecting' = collecting + 1
    /\ collectCalls' = collectCalls + 1
    /\ elapsedMs' = 0
    /\ sleptBefore' = sleepsSince
    /\ sleepsSince' = 0
    /\ UNCHANGED <<screen, events, info, header, stats, middle, frame, handled,
                   stopCalls, finiCalls, hung, pollerPc, doneSignal, keysPressed,
                   samplerPc, sleptMs, queued, cyclesDone, collectDone>>
    /\ UNCHANGED mainVars /\ UNCHANGED gVars

\* The event loop takes a queued update and runs its callback, whose first
\* statement is info := system.GetSystemInfo().
BeginUpdate ==
    /\ Alive /\ mainPc = "EventLoop" /\ loopPc = "select"
    /\ updates # <<>>
    /\ updates' = Tail(updates)
    /\ loopPc' = "collect"
    /\ collecting' = collecting + 1
    /\ collectCalls' = collectCalls + 1
    /\ elapsedMs' = 0
    /\ sleptBefore' = sleepsSince
    /\ sleepsSince' = 0
    /\ UNCHANGED <<screen, events, info, header, stats, middle, frame, handled,
                   stopCalls, finiCalls, hung, pollerPc, doneSignal, keysPressed,
                   samplerPc, sleptMs, queued, cyclesDone, collectDone>>
    /\ UNCHANGED mainVars /\ UNCHANGED gVars

\* Faulty variant of CollectReturn: the screen is redrawn as soon as GetSystemInfo has
\* returned, before the panel texts are set.
CollectReturnDraw ==
    /\ Alive /\ mainPc = "EventLoop" /\ loopPc = "collect" /\ ~hung
    /\ info' = collectCalls
    /\ collectDone' = collectDone + 1
    /\ collecting' = collecting - 1
    /\ loopPc' = "setHeader"
    /\ frame' = [drawn |-> TRUE, header |-> header, stats |-> stats,
                 middle |-> middle, latest |-> collectDone + 1]
    /\ UNCHANGED <<screen, events, header, stats, middle, handled,
                   stopCalls, finiCalls, hung, pollerPc, updates, doneSignal,
                   keysPressed, elapsedMs, collectCalls, sleptBefore>>
    /\ UNCHANGED mainVars /\ UNCHANGED samplerVars /\ UNCHANGED gVars

\* GetSystemInfo returns the snapshot of this cycle.
CollectReturn ==
    /\ Alive /\ mainPc = "EventLoop" /\ loopPc = "collect" /\ ~hung
    /\ info' = collectCalls
    /\ collectDone' = collectDone + 1
    /\ collecting' = collecting - 1
    /\ loopPc' = "setHeader"
    /\ UNCHANGED <<screen, events, header, stats, middle, frame, handled,
                   stopCalls, finiCalls, hung, pollerPc, updates, doneSignal,
                   keysPressed, elapsedMs, collectCalls, sleptBefore>>
    /\ UNCHANGED mainVars /\ UNCHANGED samplerVars /\ UNCHANGED gVars

\* An external probe of GetSystemInfo (cmd.Output of nvidia-smi or sensors,
\* which has no timeout) never returns.
CollectHang ==
    /\ Alive /\ mainPc = "EventLoop" /\ loopPc = "collect" /\ ~hung
    /\ hung' = TRUE
    /\ UNCHANGED <<screen, events, loopPc, info, header, stats, middle, frame,
                   handled, stopCalls, finiCalls, pollerPc, updates, doneSignal,
                   keysPressed>>
    /\ UNCHANGED mainVars /\ UNCHANGED samplerVars /\ UNCHANGED collectVars
    /\ UNCHANGED gVars

\* GetSystemInfo panics (hostInfo is nil when host.Info failed and
\* mem.VirtualMemory succeeded): Run's deferred handler finalizes the screen
\* and panics again, which ends the process.
CollectPanic ==
    /\ Alive /\ mainPc = "EventLoop" /\ loopPc = "collect" /\ ~hung
    /\ collecting' = collecting - 1
    /\ loopPc' = "exited"
    /\ mainPc' = "Crashed"
    /\ exitStatus' = "panic"
    /\ screen' = StopScreen(screen)
    /\ finiCalls' = finiCalls + (IF screen = "active" THEN 1 ELSE 0)
    /\ UNCHANGED <<variant, inputCapture, startup, events, info, header, stats,
                   middle, frame, handled, stopCalls, hung, pollerPc, updates,
                   doneSignal, keysPressed, elapsedMs, collectCalls, collectDone,
                   sleptBefore>>
    /\ UNCHANGED samplerVars /\ UNCHANGED gVars

\* ui.header.SetText(... info.CPUInfo, info.MemoryInfo, info.GPUInfo,
\* info.UptimeInfo)
SetHeaderText ==
    /\ Alive /\ mainPc = "EventLoop" /\ loopPc = "setHeader"
    /\ header' = info
    /\ loopPc' = "setStats"
    /\ UNCHANGED <<screen, events, info, stats, middle, frame, handled,
                   stopCalls, finiCalls, hung, pollerPc, updates, doneSignal,
                   keysPressed>>
    /\ UNCHANGED mainVars /\ UNCHANGED samplerVars /\ UNCHANGED collectVars
    /\ UNCHANGED gVars

\* Faulty variant of SetStatsText: the screen is redrawn right after the stats panel
\* text is set, before the IP panel text is.
SetStatsTextDraw ==
    /\ Alive /\ mainPc = "EventLoop" /\ loopPc = "setStats"
    /\ stats' = info
    /\ loopPc' = "setMiddle"
    /\ frame' = IF screen = "active"
                THEN [drawn |-> TRUE, header |-> header, stats |-> info,
                      middle |-> middle, latest |-> collectDone]
                ELSE frame
    /\ UNCHANGED <<screen, events, info, header, middle, handled,
                   stopCalls, finiCalls, hung, pollerPc, updates, doneSignal,
                   keysPressed>>
    /\ UNCHANGED mainVars /\ UNCHANGED samplerVars /\ UNCHANGED collectVars
    /\ UNCHANGED gVars

\* ui.stats.SetText(... info.CPUUsage, info.RAMUsage, info.CPUTemp,
\* info.GPUTemp)
SetStatsText ==
    /\ Alive /\ mainPc = "EventLoop" /\ loopPc = "setStats"
    /\ stats' = info
    /\ loopPc' = "setMiddle"
    /\ UNCHANGED <<screen, events, info, header, middle, frame, handled,
                   stopCalls, finiCalls, hung, pollerPc, updates, doneSignal,
                   keysPressed>>
    /\ UNCHANGED mainVars /\ UNCHANGED samplerVars /\ UNCHANGED collectVars
    /\ UNCHANGED gVars

\* ui.middle.SetText(ipText), built from info.IPAddresses
SetMiddleText ==
    /\ Alive /\ mainPc = "EventLoop" /\ loopPc = "setMiddle"
    /\ middle' = info
    /\ loopPc' = "draw"
    /\ UNCHANGED <<screen, events, info, header, stats, frame, handled,
                   stopCalls, finiCalls, hung, pollerPc, updates, doneSignal,
                   keysPressed>>
    /\ UNCHANGED mainVars /\ UNCHANGED samplerVars /\ UNCHANGED collectVars
    /\ UNCHANGED gVars

\* The callback has returned: QueueUpdateDraw's wrapper redraws and the event
\* loop signals the update's done channel.
FinishUpdate ==
    /\ Alive /\ mainPc = "EventLoop" /\ loopPc = "draw"
    /\ frame' = Draw(screen, frame)
    /\ doneSignal' = TRUE
    /\ loopPc' = "select"
    /\ UNCHANGED <<screen, events, info, header, stats, middle, handled,
                   stopCalls, finiCalls, hung, pollerPc, updates, keysPressed>>
    /\ UNCHANGED mainVars /\ UNCHANGED samplerVars /\ UNCHANGED collectVars
    /\ UNCHANGED gVars

\* ------------------------------------------------- the sampling goroutine

\* Faulty variant of SamplerQueue: the update is queued without waiting for it to be
\* run (go ui.app.QueueUpdateDraw(...)), and the loop goes on to its sleep.
SamplerQueueNoWait ==
    /\ Alive /\ samplerPc = "queue"
    /\ queued < MaxCycles
    /\ updates' = Append(updates, queued + 1)
    /\ queued' = queued + 1
    /\ doneSignal' = FALSE
    /\ cyclesDone' = cyclesDone + 1
    /\ sleptMs' = 0
    /\ samplerPc' = "sleep"
    /\ UNCHANGED <<pollerPc, keysPressed, sleepsSince>>
    /\ UNCHANGED mainVars /\ UNCHANGED loopVars /\ UNCHANGED collectVars
    /\ UNCHANGED gVars

\* for { ui.app.QueueUpdateDraw(func() {...}) : the update is put on the
\* queue and the goroutine waits for its done channel.
SamplerQueue ==
    /\ Alive /\ samplerPc = "queue"
    /\ queued < MaxCycles
    /\ updates' = Append(updates, queued + 1)
    /\ queued' = queued + 1
    /\ doneSignal' = FALSE
    /\ samplerPc' = "wait"
    /\ UNCHANGED <<pollerPc, keysPressed, sleptMs, cyclesDone, sleepsSince>>
    /\ UNCHANGED mainVars /\ UNCHANGED loopVars /\ UNCHANGED collectVars
    /\ UNCHANGED gVars

\* Faulty variant of SamplerResume: QueueUpdateDraw returns without waiting
\* for the event loop to run the callback.
SamplerResumeNoSignal ==
    /\ Alive /\ samplerPc = "wait"
    /\ doneSignal' = FALSE
    /\ cyclesDone' = cyclesDone + 1
    /\ sleptMs' = 0
    /\ samplerPc' = "sleep"
    /\ UNCHANGED <<pollerPc, keysPressed, updates, queued, sleepsSince>>
    /\ UNCHANGED mainVars /\ UNCHANGED loopVars /\ UNCHANGED collectVars
    /\ UNCHANGED gVars

\* QueueUpdateDraw returns once the event loop has run the callback; the
\* goroutine goes on to time.Sleep.
SamplerResume ==
    /\ Alive /\ samplerPc = "wait" /\ doneSignal
    /\ doneSignal' = FALSE
    /\ cyclesDone' = cyclesDone + 1
    /\ sleptMs' = 0
    /\ samplerPc' = "sleep"
    /\ UNCHANGED <<pollerPc, keysPressed, updates, queued, sleepsSince>>
    /\ UNCHANGED mainVars /\ UNCHANGED loopVars /\ UNCHANGED collectVars
    /\ UNCHANGED gVars

\* Faulty variant of SamplerWake: the sleep returns before the interval has passed.
SamplerWakeEarly ==
    /\ Alive /\ samplerPc = "sleep"
    /\ sleepsSince' = sleepsSince + 1
    /\ samplerPc' = "queue"
    /\ UNCHANGED <<pollerPc, keysPressed, updates, doneSignal, queued,
                   cyclesDone, sleptMs>>
    /\ UNCHANGED mainVars /\ UNCHANGED loopVars /\ UNCHANGED collectVars
    /\ UNCHANGED gVars

\* Faulty variant of SamplerWake: on waking, the sampling goroutine clears the
\* header panel itself (ui.header.SetText("")) before it queues the update.
SamplerWakeSetText ==
    /\ Alive /\ samplerPc = "sleep" /\ sleptMs >= SleepMs(variant)
    /\ sleepsSince' = sleepsSince + 1
    /\ samplerPc' = "queue"
    /\ header' = 0
    /\ UNCHANGED <<pollerPc, keysPressed, updates, doneSignal, queued,
                   cyclesDone, sleptMs>>
    /\ UNCHANGED <<screen, events, loopPc, info, stats, middle, frame,
                   handled, stopCalls, finiCalls, hung>>
    /\ UNCHANGED mainVars /\ UNCHANGED collectVars /\ UNCHANGED gVars

\* time.Sleep returns after the interval and the loop starts over.
SamplerWake ==
    /\ Alive /\ samplerPc = "sleep" /\ sleptMs >= SleepMs(variant)
    /\ sleepsSince' = sleepsSince + 1
    /\ samplerPc' = "queue"
    /\ UNCHANGED <<pollerPc, keysPressed, updates, doneSignal, queued,
                   cyclesDone, sleptMs>>
    /\ UNCHANGED mainVars /\ UNCHANGED loopVars /\ UNCHANGED collectVars
    /\ UNCHANGED gVars

\* Time passes by one sleep interval: for a sleeping sampler and for a
\* collection in progress.
Tick ==
    /\ Alive
    /\ \/ samplerPc = "sleep" /\ sleptMs < SleepMs(variant)
       \/ collecting > 0 /\ elapsedMs < MaxSlow * SleepMs(variant)
    /\ sleptMs' = IF samplerPc = "sleep"
                  THEN Min(sleptMs + SleepMs(variant), SleepMs(variant))
                  ELSE sleptMs
    /\ elapsedMs' = IF collecting > 0
                    THEN Min(elapsedMs + SleepMs(variant), MaxSlow * SleepMs(variant))
                    ELSE elapsedMs
    /\ UNCHANGED <<pollerPc, keysPressed, updates, doneSignal, samplerPc, queued,
                   cyclesDone, sleepsSince, collectCalls, collectDone, collecting,
                   sleptBefore>>
    /\ UNCHANGED mainVars /\ UNCHANGED loopVars /\ UNCHANGED gVars

\* ------------------------------------------------------------ specification

Next ==
    \/ NewUIWired \/ NewUIStaged \/ SetupLayout \/ SetupKeyHandling
    \/ UpdateSystemInfo \/ RunStart \/ MainExit
    \/ KeyPress \/ PollerQuit
    \/ HandleKey \/ HandleNil \/ BeginUpdate
    \/ CollectReturn \/ CollectHang \/ CollectPanic
    \/ SetHeaderText \/ SetStatsText \/ SetMiddleText \/ FinishUpdate
    \/ SamplerQueue \/ SamplerResume \/ SamplerWake \/ Tick

Spec == Init /\ [][Next]_vars

\* --- the statements of GetSystemInfo, in order

concVars == <<variant, mainPc, inputCapture, startup, screen, pollerPc, events,
              updates, loopPc, samplerPc, doneSignal, sleptMs, elapsedMs, hung,
              queued, cyclesDone, collectCalls, collectDone, collecting,
              sleepsSince, sleptBefore, info, header, stats, middle, frame,
              keysPressed, handled, stopCalls, finiCalls, exitStatus>>

\* The update callback calls GetSystemInfo: info := SystemInfo{};
\* info.Platform = runtime.GOOS
GBegin ==
    /\ gPc \in {"idle", "published"}
    /\ gRuns < MaxRuns
    /\ gRuns' = gRuns + 1
    /\ gCalls' = NoCalls
    /\ gRes' = NoResults
    /\ gInfo' = [EmptyInfo EXCEPT !.Platform = goos]
    /\ gPc' = "host"
    /\ gText' = NoText
    /\ UNCHANGED goos /\ UNCHANGED concVars

\* hostInfo, err := host.Info()
GHostInfo ==
    /\ gPc = "host"
    /\ \E r \in HostResults :
        /\ gRes' = [gRes EXCEPT !.err = r.err, !.hostNil = r.err,
                                !.uptime = r.uptime]
        /\ gInfo' = [gInfo EXCEPT !.OSInfo =
                        IF ~r.err THEN "ubuntu 22.04 (debian)"
                        ELSE "OS information unavailable"]
    /\ gCalls' = Called(gCalls, "host.Info")
    /\ gPc' = "cpuInfo"
    /\ UNCHANGED <<goos, gRuns, gText>> /\ UNCHANGED concVars

\* cpuInfo, err := cpu.Info()
GCpuInfo ==
    /\ gPc = "cpuInfo"
    /\ \E r \in CpuInfoResults :
        /\ gRes' = [gRes EXCEPT !.err = r.err]
        /\ gInfo' = [gInfo EXCEPT !.CPUInfo =
                        IF ~r.err /\ r.n > 0
                        THEN ToString(r.n) \o " x " \o r.model \o " @ "
                             \o GHz(r.mhz) \o " GHz"
                        ELSE "CPU information unavailable"]
    /\ gCalls' = Called(gCalls, "cpu.Info")
    /\ gPc' = "cpuPercent"
    /\ UNCHANGED <<goos, gRuns, gText>> /\ UNCHANGED concVars

\* cpuPercent, err := cpu.Percent(100*time.Millisecond, false)
GCpuPercent ==
    /\ gPc = "cpuPercent"
    /\ \E r \in CpuPercentResults :
        /\ gRes' = [gRes EXCEPT !.err = r.err,
                                !.cpuPct = IF ~r.err /\ r.n > 0 THEN r.first ELSE -1]
        /\ gInfo' = [gInfo EXCEPT !.CPUUsage =
                        IF ~r.err /\ r.n > 0
                        THEN "CPU Usage: " \o Pad2(r.first) \o "%"
                        ELSE "CPU Usage: N/A"]
    /\ gCalls' = Called(gCalls, "cpu.Percent")
    /\ gPc' = "mem"
    /\ UNCHANGED <<goos, gRuns, gText>> /\ UNCHANGED concVars

\* Faulty variant of GMemory: the RAM usage text is printed from the free
\* percentage instead of memInfo.UsedPercent.
GMemoryFreePercent ==
    /\ gPc = "mem"
    /\ \E r \in MemResults :
        /\ gRes' = [gRes EXCEPT !.err = r.err,
                                !.memPct = IF ~r.err THEN r.usedPercent ELSE -1]
        /\ gInfo' = IF ~r.err
                    THEN [gInfo EXCEPT
                            !.MemoryInfo = Tenths(r.totalTenthGiB) \o " GB System Memory",
                            !.RAMUsage = "RAM Usage: " \o Pad2(100 - r.usedPercent) \o "%"]
                    ELSE [gInfo EXCEPT
                            !.MemoryInfo = "Memory information unavailable",
                            !.RAMUsage = "RAM Usage: N/A"]
    /\ gCalls' = Called(gCalls, "mem.VirtualMemory")
    /\ gPc' = "uptime"
    /\ UNCHANGED <<goos, gRuns, gText>> /\ UNCHANGED concVars

\* memInfo, err := mem.VirtualMemory()
GMemory ==
    /\ gPc = "mem"
    /\ \E r \in MemResults :
        /\ gRes' = [gRes EXCEPT !.err = r.err,
                                !.memPct = IF ~r.err THEN r.usedPercent ELSE -1]
        /\ gInfo' = IF ~r.err
                    THEN [gInfo EXCEPT
                            !.MemoryInfo = Tenths(r.totalTenthGiB) \o " GB System Memory",
                            !.RAMUsage = "RAM Usage: " \o Pad2(r.usedPercent) \o "%"]
                    ELSE [gInfo EXCEPT
                            !.MemoryInfo = "Memory information unavailable",
                            !.RAMUsage = "RAM Usage: N/A"]
    /\ gCalls' = Called(gCalls, "mem.VirtualMemory")
    /\ gPc' = "uptime"
    /\ UNCHANGED <<goos, gRuns, gText>> /\ UNCHANGED concVars

\* if err == nil { uptime := time.Duration(hostInfo.Uptime) * time.Second ...
\* err is the error of mem.VirtualMemory; reading hostInfo.Uptime through a
\* nil hostInfo panics.
GUptime ==
    /\ gPc = "uptime"
    /\ IF ~gRes.err
       THEN IF gRes.hostNil
            THEN gPc' = "panicked" /\ gInfo' = gInfo
            ELSE /\ gInfo' = [gInfo EXCEPT !.UptimeInfo =
                                "System uptime: " \o formatDuration(gRes.uptime)]
                 /\ gPc' = "gpu"
       ELSE /\ gInfo' = [gInfo EXCEPT !.UptimeInfo = "Uptime information unavailable"]
            /\ gPc' = "gpu"
    /\ UNCHANGED <<goos, gRuns, gCalls, gRes, gText>> /\ UNCHANGED concVars

\* Faulty variant of GGpu: nvidia-smi is run a second time when its first run fails.
GGpuRetry ==
    /\ gPc = "gpu"
    /\ \E r \in NvidiaResults, r2 \in NvidiaResults, sec \in SecondDigits :
        LET g == getGPUInfo(goos, IF r.err THEN r2 ELSE r)
            runs == IF r.err THEN 2 ELSE 1
        IN /\ gInfo' = [gInfo EXCEPT
                          !.GPUInfo = g.info,
                          !.GPUTemp = IF g.temp > 0
                                      THEN "GPU Temp: " \o ToString(g.temp) \o "C"
                                      ELSE "GPU Temp: " \o ToString(60 + sec) \o "C"]
           /\ gCalls' = IF goos \in {"linux", "windows"}
                        THEN [gCalls EXCEPT !["nvidia-smi"] = @ + runs]
                        ELSE gCalls
           /\ gRes' = IF goos \in {"linux", "windows"}
                      THEN [gRes EXCEPT !.nvidia =
                                NvidiaOutcome(IF r.err THEN r2 ELSE r)]
                      ELSE gRes
    /\ gPc' = "cpuTemp"
    /\ UNCHANGED <<goos, gRuns, gText>> /\ UNCHANGED concVars

\* gpuInfo, gpuTemp := getGPUInfo() and the GPU temperature text
GGpu ==
    /\ gPc = "gpu"
    /\ \E r \in NvidiaResults, sec \in SecondDigits :
        LET g == getGPUInfo(goos, r)
        IN /\ gInfo' = [gInfo EXCEPT
                          !.GPUInfo = g.info,
                          !.GPUTemp = IF g.temp > 0
                                      THEN "GPU Temp: " \o ToString(g.temp) \o "C"
                                      ELSE "GPU Temp: " \o ToString(60 + sec) \o "C"]
           /\ gRes' = IF goos \in {"linux", "windows"}
                      THEN [gRes EXCEPT !.nvidia = NvidiaOutcome(r)] ELSE gRes
    /\ gCalls' = IF goos \in {"linux", "windows"}
                 THEN Called(gCalls, "nvidia-smi") ELSE gCalls
    /\ gPc' = "cpuTemp"
    /\ UNCHANGED <<goos, gRuns, gText>> /\ UNCHANGED concVars

\* cpuTemp := getCPUTemperature() and the CPU temperature text
GCpuTemp ==
    /\ gPc = "cpuTemp"
    /\ \E r \in SensorsResults, sec \in SecondDigits :
        LET t == getCPUTemperature(goos, r)
        IN gInfo' = [gInfo EXCEPT
                        !.CPUTemp = IF t > 0
                                    THEN "CPU Temp: " \o ToString(t) \o "C"
                                    ELSE "CPU Temp: " \o ToString(45 + (5 * sec) \div 10) \o "C"]
    /\ gCalls' = IF goos = "linux" THEN Called(gCalls, "sensors") ELSE gCalls
    /\ gPc' = "disk"
    /\ UNCHANGED <<goos, gRuns, gRes, gText>> /\ UNCHANGED concVars

\* info.DiskInfo = getDiskInfo()
GDisk ==
    /\ gPc = "disk"
    /\ \E r \in DiskResults : gInfo' = [gInfo EXCEPT !.DiskInfo = getDiskInfo(r)]
    /\ gCalls' = Called(gCalls, "disk.Partitions")
    /\ gPc' = "netInfo"
    /\ UNCHANGED <<goos, gRuns, gRes, gText>> /\ UNCHANGED concVars

\* info.NetworkInfo = getNetworkInfo(): net.Interfaces, then psnet.IOCounters
\* unless the enumeration failed
GNetworkInfo ==
    /\ gPc = "netInfo"
    /\ \E r \in InterfacesResults, io \in IOCountersResults :
        /\ gInfo' = [gInfo EXCEPT !.NetworkInfo = getNetworkInfo(r, io)]
        /\ gCalls' = IF r.err THEN Called(gCalls, "net.Interfaces")
                     ELSE Called(Called(gCalls, "net.Interfaces"), "psnet.IOCounters")
    /\ gPc' = "ip"
    /\ UNCHANGED <<goos, gRuns, gRes, gText>> /\ UNCHANGED concVars

\* info.IPAddresses = getIPAddresses(); return info
GIPAddresses ==
    /\ gPc = "ip"
    /\ \E r \in InterfacesResults :
        /\ gInfo' = [gInfo EXCEPT !.IPAddresses = getIPAddresses(r)]
        /\ gRes' = [gRes EXCEPT !.ipIfaces = r]
    /\ gCalls' = Called(gCalls, "net.Interfaces")
    /\ gPc' = "returned"
    /\ UNCHANGED <<goos, gRuns, gText>> /\ UNCHANGED concVars

\* The rest of the update callback and the redraw that follows it: the three
\* SetText calls with the fields of info, then QueueUpdateDraw's draw, which
\* puts the three texts on the screen.
GPublish ==
    /\ gPc = "returned"
    /\ LET h == HeaderText(variant, gInfo)
           s == StatsText(variant, gInfo)
           m == MiddleText(variant, gInfo)
       IN gText' = [header |-> h, stats |-> s, middle |-> m, drawn |-> <<h, s, m>>]
    /\ gPc' = "published"
    /\ UNCHANGED <<goos, gRuns, gCalls, gRes, gInfo>> /\ UNCHANGED concVars

\* The builds followed statement by statement: the NewUI wiring on every
\* GOOS, the staged wiring on linux.
Builds == {<<v, os>> \in Variants \X GOOS : v = "wired" \/ os = "linux"}

InitCollect ==
    /\ variant \in Variants
    /\ mainPc = "NewUI"
    /\ inputCapture = FALSE
    /\ startup = <<>>
    /\ screen = "none"
    /\ pollerPc = "none"
    /\ events = <<>>
    /\ updates = <<>>
    /\ loopPc = "none"
    /\ samplerPc = "none"
    /\ doneSignal = FALSE
    /\ sleptMs = 0
    /\ elapsedMs = 0
    /\ hung = FALSE
    /\ queued = 0
    /\ cyclesDone = 0
    /\ collectCalls = 0
    /\ collectDone = 0
    /\ collecting = 0
    /\ sleepsSince = 0
    /\ sleptBefore = 0
    /\ info = 0
    /\ header = 0
    /\ stats = 0
    /\ middle = 0
    /\ frame = NoFrame
    /\ keysPressed = 0
    /\ handled = NoKey
    /\ stopCalls = 0
    /\ finiCalls = 0
    /\ exitStatus = "running"
    /\ goos \in GOOS
    /\ <<variant, goos>> \in Builds
    /\ gPc = "idle"
    /\ gCalls = NoCalls
    /\ gRes = NoResults
    /\ gInfo = EmptyInfo
    /\ gRuns = 0
    /\ gText = NoText

NextCollect ==
    \/ GBegin \/ GHostInfo \/ GCpuInfo \/ GCpuPercent \/ GMemory \/ GUptime
    \/ GGpu \/ GCpuTemp \/ GDisk \/ GNetworkInfo \/ GIPAddresses \/ GPublish

SpecCollect == InitCollect /\ [][NextCollect]_vars

\* --- the uptime statement alone, over a range of uptimes

\* GetSystemInfo of src/ui/layout.go at its uptime statement: host.Info is
\* tested for its own error, and the text comes from the formatDuration that
\* prints days.
GUptimeDays ==
    /\ gPc = "uptime"
    /\ gInfo' = [gInfo EXCEPT !.UptimeInfo =
                    IF gRes.hostNil THEN "Uptime information unavailable"
                    ELSE "System uptime: " \o formatDurationDays(gRes.uptime)]
    /\ gPc' = "gpu"
    /\ UNCHANGED <<goos, gRuns, gCalls, gRes, gText>> /\ UNCHANGED concVars

\* A GetSystemInfo call about to run its uptime statement: host.Info and
\* mem.VirtualMemory have succeeded and the host reports an uptime of
\* gRes.uptime seconds. Of what the call did before, only what the uptime
\* statement reads is kept.
InitUptime ==
    /\ variant = "wired"
    /\ mainPc = "NewUI"
    /\ inputCapture = FALSE
    /\ startup = <<>>
    /\ screen = "none"
    /\ pollerPc = "none"
    /\ events = <<>>
    /\ updates = <<>>
    /\ loopPc = "none"
    /\ samplerPc = "none"
    /\ doneSignal = FALSE
    /\ sleptMs = 0
    /\ elapsedMs = 0
    /\ hung = FALSE
    /\ queued = 0
    /\ cyclesDone = 0
    /\ collectCalls = 0
    /\ collectDone = 0
    /\ collecting = 0
    /\ sleepsSince = 0
    /\ sleptBefore = 0
    /\ info = 0
    /\ header = 0
    /\ stats = 0
    /\ middle = 0
    /\ frame = NoFrame
    /\ keysPressed = 0
    /\ handled = NoKey
    /\ stopCalls = 0
    /\ finiCalls = 0
    /\ exitStatus = "running"
    /\ goos = "linux"
    /\ gPc = "uptime"
    /\ gCalls = [NoCalls EXCEPT !["host.Info"] = 1, !["mem.VirtualMemory"] = 1]
    /\ \E s \in 0..MaxUptime :
          gRes = [NoResults EXCEPT !.hostNil = FALSE, !.uptime = s]
    /\ gInfo = [EmptyInfo EXCEPT !.Platform = goos]
    /\ gRuns = 1
    /\ gText = NoText

NextUptime == GUptime \/ GUptimeDays

SpecUptime == InitUptime /\ [][NextUptime]_vars

\* The goroutines are scheduled fairly: whichever of them can take a step
\* eventually does; key presses are the operator's choice and carry no
\* fairness, and a probe that hangs stays hung.
EventLoopStep ==
    \/ HandleKey \/ HandleNil \/ BeginUpdate \/ CollectReturn \/ CollectPanic
    \/ SetHeaderText \/ SetStatsText \/ SetMiddleText \/ FinishUpdate

MainStep ==
    \/ NewUIWired \/ NewUIStaged \/ SetupLayout \/ SetupKeyHandling
    \/ UpdateSystemInfo \/ RunStart \/ MainExit

SamplerStep == SamplerQueue \/ SamplerResume \/ SamplerWake

FairSpec ==
    /\ Spec
    /\ WF_vars(MainStep)
    /\ WF_vars(EventLoopStep)
    /\ WF_vars(SamplerStep)
    /\ WF_vars(PollerQuit)
    /\ WF_vars(Tick)

\* ------------------------------------------------------------------- claims

TerminateKeys == {KeyEscape, KeyCtrlC}

\* C1: while a GetSystemInfo call is in progress the event loop is not the
\* one executing it, and it can still handle a pending event.
C1_EventLoopFreeDuringCollect ==
    collecting > 0 =>
        /\ loopPc # "collect"
        /\ (events # <<>> => ENABLED (HandleKey \/ HandleNil))

\* C2: a terminate key that is pending while a probe hangs is eventually
\* handled, and the application stops.
C2_TerminateKeyHandledDuringHang ==
    (hung /\ events # <<>> /\ Head(events) \in TerminateKeys)
        ~> (stopCalls > 0 /\ screen = "stopped")

\* C3: the header, stats and IP panel texts of every drawn frame come from one
\* and the same collection cycle.
C3_FrameFromOneCycle ==
    frame.header = frame.stats /\ frame.stats = frame.middle

C3_Witness ==
    /\ frame.drawn /\ frame.header >= 2
    /\ handled.key = "KeyEnter" /\ keysPressed = MaxKeys
    /\ loopPc = "setStats" /\ header # stats

\* C4: every drawn frame shows the snapshot of the most recently completed
\* collection cycle, not an older one and not one still in progress.
C4_FrameShowsLatestCompleted ==
    frame.drawn =>
        /\ frame.header = frame.latest
        /\ frame.stats = frame.latest
        /\ frame.middle = frame.latest

C4_Witness ==
    /\ frame.drawn /\ frame.latest = 2 /\ frame.header = 2
    /\ handled.key = "KeyRune" /\ collectCalls = 3 /\ collecting = 1

\* C5: once Stop has been requested, the sampling loop leaves its loop at the
\* next wake boundary (it enters Stopped instead of starting another cycle).
C5_SamplerStopsAtWakeBoundary ==
    [][(stopCalls > 0 /\ samplerPc = "sleep" /\ samplerPc' # "sleep")
        => samplerPc' = "stopped"]_vars

\* C6 (as stated): every GetSystemInfo call, the first included, is preceded
\* by exactly one full sleep of the sampling loop.
C6_SleepBeforeEveryCollect ==
    collectCalls >= 1 => sleptBefore = 1

\* C6 (amended): an iteration is Collect, publish, sleep. The first
\* GetSystemInfo call is preceded by no sleep, every later one by exactly one
\* sleep of the full interval, and the sampling loop sleeps only after the
\* cycle's snapshot has been written to all three panels.
C6_CollectPublishSleep ==
    /\ collectCalls = 1 => sleptBefore = 0
    /\ collectCalls >= 2 => sleptBefore = 1
    /\ sleepsSince <= 1
    /\ (samplerPc \in {"queue", "wait"} /\ cyclesDone >= 1)
          => sleptMs >= SleepMs(variant)
    /\ samplerPc = "sleep" =>
          /\ collectDone = cyclesDone
          /\ header = cyclesDone /\ stats = cyclesDone /\ middle = cyclesDone

C6_Witness ==
    /\ collectCalls = 2 /\ sleptBefore = 1 /\ loopPc = "collect"
    /\ variant = "staged" /\ sleptMs = 2000

\* C7: at most one GetSystemInfo call is in progress, however long a call
\* takes, and the cycles the sampling loop has completed are exactly the
\* GetSystemInfo calls made.
C7_CollectionsSequential ==
    /\ collecting <= 1
    /\ cyclesDone <= collectCalls /\ collectCalls <= cyclesDone + 1
    /\ samplerPc \in {"sleep", "queue"} => collectCalls = cyclesDone

C7_Witness ==
    /\ collecting = 1 /\ collectCalls = 2 /\ cyclesDone = 1
    /\ elapsedMs >= 3 * SleepMs(variant)

\* C8: the sampling loop is never suspended by the event loop: while the
\* event loop is not started, busy or hung, a sampling loop that has issued
\* its update can still go on to its next cycle.
C8_SamplerIndependentOfEventLoop ==
    (samplerPc = "wait" /\ loopPc # "select") => ENABLED SamplerResume

\* C9 (as stated): a GetSystemInfo call that has returned has invoked every
\* external probe exactly once.
NamedProbes == {"host.Info", "cpu.Info", "cpu.Percent", "mem.VirtualMemory",
                "nvidia-smi", "sensors", "net.Interfaces"}

C9_EveryProbeExactlyOnce ==
    gPc = "returned" => \A p \in NamedProbes : gCalls[p] = 1

\* The statements of GetSystemInfo that have been executed at position pc.
GOrder == <<"host", "cpuInfo", "cpuPercent", "mem", "uptime", "gpu", "cpuTemp",
            "disk", "netInfo", "ip", "returned", "published">>

GIndex(pc) ==
    IF pc = "panicked" THEN 5
    ELSE IF pc = "idle" THEN 1
    ELSE CHOOSE i \in 1..Len(GOrder) : GOrder[i] = pc

\* C9 (amended): no probe is retried. At every point of a call each probe has
\* been invoked exactly as often as the statements executed so far call it:
\* host info, CPU info, CPU usage and memory once each; the GPU command once
\* on linux and windows and never on darwin; the sensor command once on linux
\* only; the interface enumeration twice (getNetworkInfo and getIPAddresses).
C9_ProbeCounts ==
    LET at == GIndex(gPc)
        After(i, n) == IF at > i THEN n ELSE 0
    IN /\ gCalls["host.Info"] = After(1, 1)
       /\ gCalls["cpu.Info"] = After(2, 1)
       /\ gCalls["cpu.Percent"] = After(3, 1)
       /\ gCalls["mem.VirtualMemory"] = After(4, 1)
       /\ gCalls["nvidia-smi"] = After(6, IF goos \in {"linux", "windows"} THEN 1 ELSE 0)
       /\ gCalls["sensors"] = After(7, IF goos = "linux" THEN 1 ELSE 0)
       /\ gCalls["disk.Partitions"] = After(8, 1)
       /\ gCalls["net.Interfaces"] = After(9, 1) + After(10, 1)
       /\ gCalls["psnet.IOCounters"] <= After(9, 1)

C9_Witness ==
    /\ gPc = "returned" /\ goos = "linux" /\ gRuns = 2
    /\ gInfo.GPUInfo = "GPU information unavailable"
    /\ gInfo.IPAddresses = <<"Error getting network interfaces">>
    /\ gCalls["nvidia-smi"] = 1 /\ gCalls["net.Interfaces"] = 2

\* C10: the input capture requests a stop exactly for Escape and Ctrl-C, and
\* returns every key event it is given unchanged; a key other than those two
\* causes no Stop call at all.
C10_StopOnlyOnTerminateKeys ==
    handled.key # "none" =>
        /\ handled.stop <=> handled.key \in TerminateKeys
        /\ handled.returned = handled.key
        /\ handled.key \notin TerminateKeys => handled.stops = 0

C10_Witness ==
    /\ handled.key = "KeyRune" /\ handled.returned = "KeyRune"
    /\ ~handled.stop /\ stopCalls = 0 /\ screen = "active"
    /\ keysPressed = MaxKeys /\ events = <<>>

\* C11: a press of a terminate key causes exactly one Stop call, the input
\* capture's own, although the capture returns the key event to tview.
C11_OneStopPerTerminateKey ==
    handled.key \in TerminateKeys => handled.stops = 1

\* C12: once a terminate key has been pressed, the process eventually exits
\* (read generously: in whatever way it ends); however often the key is
\* pressed, the screen is torn down at most once.
C12_TerminateKeyLeadsToExit ==
    /\ [](finiCalls <= 1)
    /\ (\E i \in DOMAIN events : events[i] \in TerminateKeys) ~> ~Alive

IsPrefix(s, t) == Len(s) <= Len(t) /\ \A i \in 1..Len(s) : s[i] = t[i]

\* C13 (as stated): the sampling loop is started before the input capture is
\* installed, both before Run is entered; the screen is torn down only after
\* a Stop call, and before main returns.
C13_SchedulerBeforeInputHandler ==
    /\ IsPrefix(startup, <<"Scheduler", "InputHandler", "Run">>)
    /\ screen = "stopped" => stopCalls > 0
    /\ (mainPc \in {"RunReturned", "Exited"} /\ loopPc = "exited")
          => screen = "stopped"

\* C13 (amended): the input capture is installed first, the sampling loop is
\* started second, and Run is entered only after both. The screen is torn
\* down once, after a Stop call or by Run's panic handler when a collection
\* panics, and whenever Run has returned nil it has been torn down.
C13_StartupOrder ==
    /\ IsPrefix(startup, <<"InputHandler", "Scheduler", "Run">>)
    /\ samplerPc # "none" => inputCapture
    /\ mainPc \in {"EventLoop", "RunReturned", "RunFailed", "Exited", "Crashed"}
          => (inputCapture /\ samplerPc # "none" /\ Len(startup) = 3)
    /\ screen = "stopped" => (stopCalls > 0 \/ exitStatus = "panic")
    /\ (finiCalls = 1 <=> screen = "stopped") /\ finiCalls <= 1
    /\ (mainPc \in {"RunReturned", "Exited"} /\ loopPc = "exited")
          => (screen = "stopped" /\ stopCalls > 0)

C13_Witness ==
    /\ mainPc = "Exited" /\ exitStatus = "ok" /\ variant = "staged"
    /\ startup = <<"InputHandler", "Scheduler", "Run">>
    /\ finiCalls = 1 /\ stopCalls = 2 /\ handled.key = KeyCtrlC

\* C14: when Run fails to initialise the screen, nothing of the UI has been
\* shown and the process ends with a non-zero exit code, the error reported;
\* when Run has returned after a Stop call, it returned nil and the exit code
\* is 0. The exit code is 0 in no other case.
C14_ExitStatus ==
    /\ (mainPc = "RunFailed" \/ (mainPc = "Exited" /\ loopPc = "none"))
          => (screen = "none" /\ ~frame.drawn /\ pollerPc = "none"
              /\ finiCalls = 0 /\ handled = NoKey)
    /\ (mainPc = "Exited" /\ loopPc = "none")
          => (exitStatus = "error" /\ ExitCode > 0)
    /\ (mainPc = "Exited" /\ loopPc = "exited")
          => (exitStatus = "ok" /\ ExitCode = 0 /\ stopCalls > 0)
    /\ ExitCode = 0 => (stopCalls > 0 /\ loopPc = "exited")

C14_Witness ==
    /\ mainPc = "Exited" /\ exitStatus = "error" /\ ExitCode = 2
    /\ variant = "staged" /\ samplerPc = "wait" /\ screen = "none"

\* C15: GetSystemInfo never raises: whatever its probes return, the call does
\* not panic.
C15_CollectNeverRaises ==
    gPc # "panicked"

\* C16: probe failures are isolated per field; in particular, once the uptime
\* statement has run, the uptime field holds its placeholder exactly when
\* host.Info failed, whatever mem.VirtualMemory returned.
C16_UptimePlaceholderIffHostFailed ==
    (gPc # "panicked" /\ GIndex(gPc) > 5) =>
        (gInfo.UptimeInfo = "Uptime information unavailable" <=> gRes.hostNil)

\* The temperatures the probes of this build can report as readings (a
\* reading of 0 or less counts as none).
ReadableGPUTemps == {t \in {getGPUInfo(goos, r).temp : r \in NvidiaResults} : t > 0}

ReadableCPUTemps == {t \in {getCPUTemperature(goos, r) : r \in SensorsResults} : t > 0}

\* C17: a temperature field never shows a number that was not read from its
\* probe: once its statement has run, the field shows a reading or no number
\* at all (an "unavailable" text).
C17_NoUnmeasuredTemperature ==
    \A t \in 0..100 :
        /\ gInfo.GPUTemp = "GPU Temp: " \o ToString(t) \o "C" => t \in ReadableGPUTemps
        /\ gInfo.CPUTemp = "CPU Temp: " \o ToString(t) \o "C" => t \in ReadableCPUTemps

StringFields == {"CPUInfo", "GPUInfo", "MemoryInfo", "RAMUsage", "CPUUsage",
                 "UptimeInfo", "CPUTemp", "GPUTemp", "Platform", "OSInfo"}

ListFields == {"IPAddresses", "DiskInfo", "NetworkInfo"}

\* C18: in every SystemInfo that GetSystemInfo returns no string field is
\* empty, and no list field is empty or has an empty entry, whatever the
\* probes returned.
C18_NoEmptyField ==
    gPc = "returned" =>
        /\ \A f \in StringFields : gInfo[f] # ""
        /\ \A f \in ListFields :
              /\ gInfo[f] # <<>>
              /\ \A i \in DOMAIN gInfo[f] : gInfo[f][i] # ""

RECURSIVE Flatten(_)
Flatten(ss) == IF ss = <<>> THEN <<>> ELSE Head(ss) \o Flatten(Tail(ss))

\* The addresses of one interface that qualify: none on a loopback interface,
\* else its IPv4, non-loopback addresses in order, each printed as
\* "<ip> (<ifaceName>)".
QualifyingOf(iface) ==
    IF iface.loopback THEN <<>>
    ELSE LET q == SelectSeq(iface.addrs, LAMBDA a : a.v4 /\ ~a.loopback)
         IN [i \in 1..Len(q) |-> q[i].ip \o " (" \o iface.name \o ")"]

QualifyingAddresses(ifaces) ==
    Flatten([i \in 1..Len(ifaces) |-> QualifyingOf(ifaces[i])])

C21_GPUUnavailableNoRetry ==
    (GIndex(gPc) > 6 /\ goos \in {"linux", "windows"}
     /\ gRes.nvidia \in {"failed", "no usable line"})
        => (gInfo.GPUInfo = "GPU information unavailable"
            /\ gCalls["nvidia-smi"] = 1)

C21_Witness ==
    /\ gPc = "published" /\ goos = "windows"
    /\ gRes.nvidia = "no usable line"
    /\ gInfo.GPUInfo = "GPU information unavailable"
    /\ gCalls["nvidia-smi"] = 1

\* C22: no frame is drawn with an empty header, stats or IP panel: before the
\* first update the panels show a placeholder text.
C22_NoBlankFrame ==
    frame.drawn => (frame.header # 0 /\ frame.stats # 0 /\ frame.middle # 0)

\* sub occurs in the text s (k: the number of characters after it)
Contains(s, sub) ==
    \E k \in 0..(Len(s) - Len(sub)) :
        SubSeq(s, Len(s) - Len(sub) + 1 - k, Len(s) - k) = sub

C25_NoAddressOfDownInterface ==
    (gPc = "returned" /\ ~gRes.ipIfaces.err) =>
        \A i \in DOMAIN gRes.ipIfaces.ifaces :
            LET iface == gRes.ipIfaces.ifaces[i]
            IN ~iface.up =>
                 \A j \in DOMAIN iface.addrs, k \in DOMAIN gInfo.IPAddresses :
                     gInfo.IPAddresses[k] # iface.addrs[j].ip \o " (" \o iface.name \o ")"

\* C26: the text of the header, stats and IP panels changes only in a step of
\* the event loop that runs the update callback, while the sampling goroutine
\* waits in QueueUpdateDraw; such a step neither draws nor handles a key.
C26_PanelTextOnlyOnEventLoop ==
    [][(header' # header \/ stats' # stats \/ middle' # middle)
        => (/\ mainPc = "EventLoop"
            /\ loopPc \in {"setHeader", "setStats", "setMiddle"}
            /\ samplerPc = "wait" /\ samplerPc' = "wait"
            /\ frame' = frame /\ handled' = handled /\ events' = events)]_vars

C26_Witness ==
    /\ loopPc = "setStats" /\ header = 2 /\ stats = 1 /\ middle = 1
    /\ samplerPc = "wait" /\ events # <<>> /\ frame.header = 1

\* C27: the sampling loop has at most one update outstanding: an update is
\* queued or being run only while the loop waits in QueueUpdateDraw, the
\* queue never holds more than one, and the loop has issued at most one call
\* more than have returned.
C27_AtMostOneUpdateOutstanding ==
    /\ Len(updates) <= 1
    /\ queued <= cyclesDone + 1
    /\ updates # <<>> => (samplerPc = "wait" /\ ~doneSignal)
    /\ samplerPc \in {"none", "queue", "sleep"} => (updates = <<>> /\ queued = cyclesDone)

C27_Witness ==
    /\ updates = <<2>> /\ samplerPc = "wait" /\ queued = 2 /\ cyclesDone = 1
    /\ loopPc = "select" /\ events # <<>> /\ keysPressed = MaxKeys

\* C28: the sampling goroutine is started before Run starts the event loop,
\* and the update it queues is not lost: once the event loop runs and no stop
\* has been requested, a frame showing the first snapshot (or a later one) is
\* eventually drawn, unless a stop is requested first.
C28_FirstSnapshotEventuallyDrawn ==
    /\ [](mainPc = "EventLoop" => samplerPc # "none")
    /\ (mainPc = "EventLoop" /\ stopCalls = 0)
           ~> ((frame.drawn /\ frame.header >= 1 /\ frame.stats >= 1
                /\ frame.middle >= 1) \/ stopCalls > 0)

\* C29: once Run has returned after a stop request, no queued update callback
\* runs any more: no update is taken off the queue, no GetSystemInfo call
\* starts or is in progress, and no panel text changes, although the sampling
\* goroutine goes on (it may still queue an update, which stays queued).
C29_NoUpdateAfterRunReturned ==
    [][(mainPc \in {"RunReturned", "Exited"} /\ stopCalls > 0)
        => (/\ collecting = 0 /\ loopPc = "exited"
            /\ collectCalls' = collectCalls /\ collecting' = collecting
            /\ header' = header /\ stats' = stats /\ middle' = middle
            /\ info' = info /\ frame' = frame
            /\ Len(updates') >= Len(updates))]_vars

C29_Witness ==
    /\ mainPc = "Exited" /\ exitStatus = "ok" /\ stopCalls > 0
    /\ updates = <<2>> /\ samplerPc = "wait" /\ collectCalls = 1
    /\ header = 1

\* The interfaces whose iface.Addrs() call succeeds, in enumeration order.
WithoutFailedAddrs(ifaces) == SelectSeq(ifaces, LAMBDA f : ~f.addrsErr)

\* C30: when the address enumeration of some non-loopback interface fails,
\* the IP list is what the other interfaces alone would give: their
\* qualifying addresses in order (the "No IPv4 addresses found" entry when
\* they have none), and no "Error getting network interfaces" entry.
C30_FailedInterfaceSkippedAlone ==
    (/\ gPc = "returned" /\ ~gRes.ipIfaces.err
     /\ \E i \in DOMAIN gRes.ipIfaces.ifaces :
           gRes.ipIfaces.ifaces[i].addrsErr /\ ~gRes.ipIfaces.ifaces[i].loopback)
        => /\ LET q == QualifyingAddresses(WithoutFailedAddrs(gRes.ipIfaces.ifaces))
              IN gInfo.IPAddresses =
                    IF q = <<>> THEN <<"No IPv4 addresses found">> ELSE q
           /\ \A k \in DOMAIN gInfo.IPAddresses :
                 gInfo.IPAddresses[k] # "Error getting network interfaces"

C30_Witness ==
    /\ gPc = "returned"
    /\ gRes.ipIfaces = [err |-> FALSE, ifaces |-> <<IfEth0, IfWlanErr, IfBr0>>]
    /\ gInfo.IPAddresses =
          <<"10.0.0.5 (eth0)", "172.17.0.1 (br0)", "172.17.0.2 (br0)">>

\* The value of a decimal digit character.
DigitOf == [c \in {"0", "1", "2", "3", "4", "5", "6", "7", "8", "9"} |->
               CASE c = "0" -> 0 [] c = "1" -> 1 [] c = "2" -> 2 [] c = "3" -> 3
                 [] c = "4" -> 4 [] c = "5" -> 5 [] c = "6" -> 6 [] c = "7" -> 7
                 [] c = "8" -> 8 [] c = "9" -> 9]

RECURSIVE ScanNumbers(_, _, _, _)
ScanNumbers(str, i, cur, acc) ==
    IF i > Len(str) THEN (IF cur >= 0 THEN Append(acc, cur) ELSE acc)
    ELSE LET c == SubSeq(str, i, i)
         IN IF c \in DOMAIN DigitOf
            THEN ScanNumbers(str, i + 1,
                             (IF cur < 0 THEN 0 ELSE cur) * 10 + DigitOf[c], acc)
            ELSE ScanNumbers(str, i + 1, -1,
                             IF cur >= 0 THEN Append(acc, cur) ELSE acc)

\* The numbers printed in a text, in order, read back as decimal numbers.
NumbersIn(str) == ScanNumbers(str, 1, -1, <<>>)

\* C31: the uptime text decomposes the uptime of s whole seconds without
\* loss. Read back from the printed text: without a days part (no "days" in
\* the text) there are three numbers, minutes and seconds in 0..59 and
\* hours*3600 + minutes*60 + seconds = s; the variant that prints days (its
\* parts are separated by commas) keeps hours in 0..23 and, when it prints
\* days, days*86400 + hours*3600 + minutes*60 + seconds = s.
C31_UptimeDecomposition ==
    (gPc = "gpu" /\ ~gRes.hostNil /\ ~gRes.err) =>
        LET n == NumbersIn(gInfo.UptimeInfo)
            s == gRes.uptime
            withDays == Contains(gInfo.UptimeInfo, ", ")
        IN IF Len(n) = 4
           THEN /\ withDays /\ n[1] > 0
                /\ n[2] \in 0..23 /\ n[3] \in 0..59 /\ n[4] \in 0..59
                /\ n[1] * 86400 + n[2] * 3600 + n[3] * 60 + n[4] = s
           ELSE /\ Len(n) = 3
                /\ n[2] \in 0..59 /\ n[3] \in 0..59
                /\ withDays => n[1] \in 0..23
                /\ n[1] * 3600 + n[2] * 60 + n[3] = s

C31_Witness ==
    /\ gPc = "gpu" /\ gRes.uptime = 90061
    /\ gInfo.UptimeInfo = "System uptime: 1 days, 1 hours, 1 minutes, 1 seconds"

====
